---- MODULE Spec2Model ----
(***************************************************************************)
(* The control stack of src/instrument/add_hooks/block_stack.rs:           *)
(* BlockStack::new builds begin_end_map in one forward scan, the five      *)
(* scope operations push and pop BlockStackElements, and br_target and     *)
(* return_target resolve a label or a return against the current stack.    *)
(* Instruction positions are 0-based as in the source; instrs[i + 1] is    *)
(* the instruction at position i.                                          *)
(***************************************************************************)
EXTENDS Integers, Sequences, FiniteSets, TLC

VARIABLES instrs, status, block_stack, begin_end_map, iidx, call

vars == <<instrs, status, block_stack, begin_end_map, iidx, call>>

(* ------------------------------ bounds --------------------------------- *)

\* longest instruction sequence a lockstep traversal is run on
MaxLen == 6
\* longest instruction sequence under a caller that is free to call anything
MaxCallLen == 4
\* deepest block_stack such a caller may build
MaxDepth == 2
\* largest label passed to br_target
MaxLabel == 2

(* --------------------------- instructions ------------------------------ *)

\* "Nop" stands for every instruction matched by the `_ => {}` arm
Instr == {"Block", "Loop", "If", "Else", "End", "Nop"}

\* the positions a free caller passes to begin_block, begin_loop and begin_if
Positions == 0 .. (MaxCallLen - 1)

Labels == 0 .. MaxLabel

\* every sequence of at most max instructions, the empty one included
InstrSeqs(max) == UNION {[1 .. n -> Instr] : n \in 0 .. max}

\* Option<T>: None is the empty sequence, Some(x) is <<x>>
None == <<>>

Some(x) == <<x>>

(* ------------------------- BlockStackElement --------------------------- *)

Function(end_) == [type |-> "function", end |-> end_]

Block(begin_, end_) == [type |-> "block", begin |-> begin_, end |-> end_]

Loop(begin_, end_) == [type |-> "loop", begin |-> begin_, end |-> end_]

If(begin_if_, begin_else_, end_) ==
    [type |-> "if", begin_if |-> begin_if_, begin_else |-> begin_else_, end |-> end_]

Else(begin_else_, begin_if_, end_) ==
    [type |-> "else", begin_else |-> begin_else_, begin_if |-> begin_if_, end |-> end_]

BranchTarget(absolute_instr_, ended_blocks_) ==
    [absolute_instr |-> absolute_instr_, ended_blocks |-> ended_blocks_]

(* ------------------------------ helpers -------------------------------- *)

\* Vec::pop: the vector without its last element
Front(s) == SubSeq(s, 1, Len(s) - 1)

\* Vec::last
Last(s) == s[Len(s)]

\* iter().rev(): the elements from the last to the first
Rev(s) == [i \in 1 .. Len(s) |-> s[Len(s) + 1 - i]]

\* Iterator::take(n).collect()
Take(s, n) == SubSeq(s, 1, IF n < Len(s) THEN n ELSE Len(s))

\* HashMap::new()
EmptyMap == [k \in {} |-> 0]

\* HashMap::insert: a later insert under the same key replaces the entry
Insert(map, k, v) == (k :> v) @@ map

\* HashMap::get as an Option
Get(map, k) == IF k \in DOMAIN map THEN Some(map[k]) ELSE None

(* --------------------------- BlockStack::new --------------------------- *)

\* the instructions scanned are instrs[..instrs.len() - 1]: positions 0 .. len - 2
scan_len(ins) == Len(ins) - 1

\* scan_step without the special case of lines 62-65: an Else only closes
scan_step_else_only_closes(instr, iidx_, begin_stack, map) ==
    IF instr \in {"Block", "Loop", "If"}
    THEN [panic |-> FALSE, begin_stack |-> Append(begin_stack, iidx_), map |-> map]
    ELSE IF instr \in {"Else", "End"}
    THEN IF begin_stack = <<>>
         THEN [panic |-> TRUE, begin_stack |-> begin_stack, map |-> map]
         ELSE [panic |-> FALSE, begin_stack |-> Front(begin_stack),
               map |-> Insert(map, Last(begin_stack), iidx_)]
    ELSE [panic |-> FALSE, begin_stack |-> begin_stack, map |-> map]

\* scan_step whose Else pushes the begin it popped back, not its own position
scan_step_else_pushes_begin(instr, iidx_, begin_stack, map) ==
    IF instr \in {"Block", "Loop", "If"}
    THEN [panic |-> FALSE, begin_stack |-> Append(begin_stack, iidx_), map |-> map]
    ELSE IF instr \in {"Else", "End"}
    THEN IF begin_stack = <<>>
         THEN [panic |-> TRUE, begin_stack |-> begin_stack, map |-> map]
         ELSE [panic |-> FALSE,
               begin_stack |-> IF instr = "Else" THEN begin_stack ELSE Front(begin_stack),
               map |-> Insert(map, Last(begin_stack), iidx_)]
    ELSE [panic |-> FALSE, begin_stack |-> begin_stack, map |-> map]

\* one iteration of the loop body: the match on the instruction at iidx_
scan_step(instr, iidx_, begin_stack, map) ==
    IF instr \in {"Block", "Loop", "If"}
    THEN [panic |-> FALSE, begin_stack |-> Append(begin_stack, iidx_), map |-> map]
    ELSE IF instr \in {"Else", "End"}
    THEN IF begin_stack = <<>>
         THEN [panic |-> TRUE, begin_stack |-> begin_stack, map |-> map]
         ELSE LET begin_iidx == Last(begin_stack)
                  popped == Front(begin_stack)
              IN  [panic |-> FALSE,
                   begin_stack |-> IF instr = "Else" THEN Append(popped, iidx_) ELSE popped,
                   map |-> Insert(map, begin_iidx, iidx_)]
    ELSE [panic |-> FALSE, begin_stack |-> begin_stack, map |-> map]

RECURSIVE scan(_, _, _, _)
\* the for loop from position iidx_ on
scan(ins, iidx_, begin_stack, map) ==
    IF iidx_ >= scan_len(ins)
    THEN [panic |-> FALSE, begin_stack |-> begin_stack, map |-> map]
    ELSE LET s == scan_step(ins[iidx_ + 1], iidx_, begin_stack, map)
         IN  IF s.panic THEN s ELSE scan(ins, iidx_ + 1, s.begin_stack, s.map)

\* scan_closed with the assert left out
scan_closed_unchecked(begin_stack) == TRUE

\* the trailing assert!(begin_stack.is_empty(), ...)
scan_closed(begin_stack) == begin_stack = <<>>

\* function_frame with the end one past the last instruction
function_frame_past_end(ins) == Function(Len(ins))

\* the Function frame the stack starts with
function_frame(ins) == Function(Len(ins) - 1)

\* BlockStack::new: the panic it ends in ("none" when it returns) and the fields
new(ins) ==
    IF Len(ins) = 0
    THEN \* instrs.len() - 1 underflows: overflow panic, or a slice end out of range
         [panic |-> "index out of range", block_stack |-> <<>>, begin_end_map |-> EmptyMap]
    ELSE LET s == scan(ins, 0, <<>>, EmptyMap)
         IN  IF s.panic \/ ~scan_closed(s.begin_stack)
             THEN [panic |-> "invalid block nesting", block_stack |-> <<>>,
                   begin_end_map |-> EmptyMap]
             ELSE [panic |-> "none", block_stack |-> <<function_frame(ins)>>,
                   begin_end_map |-> s.map]

(* --------------------------- scope operations -------------------------- *)

\* each operation gives the panic it ends in ("none" when it returns), the
\* block_stack it leaves and the value it returns (None when it returns nothing)

begin_block(stack, map, begin_) ==
    IF Get(map, begin_) = None
    THEN [panic |-> "invalid block nesting", stack |-> stack, ret |-> None]
    ELSE [panic |-> "none", stack |-> Append(stack, Block(begin_, map[begin_])), ret |-> None]

begin_loop(stack, map, begin_) ==
    IF Get(map, begin_) = None
    THEN [panic |-> "invalid block nesting", stack |-> stack, ret |-> None]
    ELSE [panic |-> "none", stack |-> Append(stack, Loop(begin_, map[begin_])), ret |-> None]

\* if_record without the second lookup: every If is taken to have no else
if_record_never_else(map, begin_if_) == If(begin_if_, None, map[begin_if_])

\* if_record with the two looked-up positions stored the wrong way round
if_record_else_end_swapped(map, begin_if_) ==
    LET end_or_else == map[begin_if_]
    IN  IF Get(map, end_or_else) # None
        THEN If(begin_if_, Some(map[end_or_else]), end_or_else)
        ELSE If(begin_if_, None, end_or_else)

\* the If record begin_if builds from the two lookups
if_record(map, begin_if_) ==
    LET end_or_else == map[begin_if_]
    IN  IF Get(map, end_or_else) # None
        THEN If(begin_if_, Some(end_or_else), map[end_or_else])
        ELSE If(begin_if_, None, end_or_else)

begin_if(stack, map, begin_if_) ==
    IF Get(map, begin_if_) = None
    THEN [panic |-> "invalid block nesting", stack |-> stack, ret |-> None]
    ELSE [panic |-> "none", stack |-> Append(stack, if_record(map, begin_if_)), ret |-> None]

\* else_record with the two begin positions stored the wrong way round
else_record_begins_swapped(block_element) ==
    Else(block_element.begin_if, block_element.begin_else[1], block_element.end)

\* the Else record else_ pushes in place of the If it popped
else_record(block_element) ==
    Else(block_element.begin_else[1], block_element.begin_if, block_element.end)

\* else_ that pops the If and pushes nothing in its place
else_pops_only(stack) ==
    IF stack = <<>>
    THEN [panic |-> "invalid block nesting", stack |-> stack, ret |-> None]
    ELSE LET block_element == Last(stack)
         IN  IF block_element.type = "if" /\ block_element.begin_else # None
             THEN [panic |-> "none", stack |-> Front(stack), ret |-> Some(block_element)]
             ELSE [panic |-> "invalid block nesting", stack |-> Front(stack), ret |-> None]

\* else_ that takes an Else on top for the If it looks for
else_accepts_else(stack) ==
    IF stack = <<>>
    THEN [panic |-> "invalid block nesting", stack |-> stack, ret |-> None]
    ELSE LET block_element == Last(stack)
         IN  IF block_element.type = "if" /\ block_element.begin_else # None
             THEN [panic |-> "none",
                   stack |-> Append(Front(stack), else_record(block_element)),
                   ret |-> Some(block_element)]
             ELSE IF block_element.type = "else"
             THEN [panic |-> "none", stack |-> stack, ret |-> Some(block_element)]
             ELSE [panic |-> "invalid block nesting", stack |-> Front(stack), ret |-> None]

\* else_ that returns the Else record it pushed
else_returns_else(stack) ==
    IF stack = <<>>
    THEN [panic |-> "invalid block nesting", stack |-> stack, ret |-> None]
    ELSE LET block_element == Last(stack)
         IN  IF block_element.type = "if" /\ block_element.begin_else # None
             THEN [panic |-> "none",
                   stack |-> Append(Front(stack), else_record(block_element)),
                   ret |-> Some(else_record(block_element))]
             ELSE [panic |-> "invalid block nesting", stack |-> Front(stack), ret |-> None]

else_(stack) ==
    IF stack = <<>>
    THEN [panic |-> "invalid block nesting", stack |-> stack, ret |-> None]
    ELSE LET block_element == Last(stack)
         IN  IF block_element.type = "if" /\ block_element.begin_else # None
             THEN [panic |-> "none",
                   stack |-> Append(Front(stack), else_record(block_element)),
                   ret |-> Some(block_element)]
             ELSE \* the record was popped before the panic
                  [panic |-> "invalid block nesting", stack |-> Front(stack), ret |-> None]

\* end that returns the top record and leaves it on the stack
end_peeks(stack) ==
    IF stack = <<>>
    THEN [panic |-> "invalid block nesting", stack |-> stack, ret |-> None]
    ELSE [panic |-> "none", stack |-> stack, ret |-> Some(Last(stack))]

\* end that removes the first record of the vector instead of the last
end_removes_first(stack) ==
    IF stack = <<>>
    THEN [panic |-> "invalid block nesting", stack |-> stack, ret |-> None]
    ELSE [panic |-> "none", stack |-> Tail(stack), ret |-> Some(Head(stack))]

end(stack) ==
    IF stack = <<>>
    THEN [panic |-> "invalid block nesting", stack |-> stack, ret |-> None]
    ELSE [panic |-> "none", stack |-> Front(stack), ret |-> Some(Last(stack))]

(* ------------------------------ resolver ------------------------------- *)

\* ended_blocks_of without the rev(): the records are taken from the bottom
ended_blocks_of_from_bottom(stack, label) == Take(stack, label + 1)

\* block_stack.iter().rev().take(label.0 + 1).cloned().collect()
ended_blocks_of(stack, label) == Take(Rev(stack), label + 1)

\* absolute_instr_of that branches forward for a Loop too
absolute_instr_of_always_end(target_block) == target_block.end

\* backward branch when targeting loops, forward for all other blocks
absolute_instr_of(target_block) ==
    IF target_block.type = "loop" THEN target_block.begin ELSE target_block.end

\* br_target that does not count the bottom record among the targets
br_target_skips_bottom(stack, label) ==
    LET ended_blocks == ended_blocks_of(stack, label)
    IN  IF label + 1 > Len(stack) - 1
        THEN [panic |-> "invalid label", stack |-> stack, ret |-> None]
        ELSE [panic |-> "none", stack |-> stack,
              ret |-> Some(BranchTarget(absolute_instr_of(ended_blocks[label + 1]),
                                        ended_blocks))]

\* br_target that takes the ended blocks off the stack
br_target_pops_ended(stack, label) ==
    LET ended_blocks == ended_blocks_of(stack, label)
    IN  IF label + 1 > Len(ended_blocks)
        THEN [panic |-> "invalid label", stack |-> stack, ret |-> None]
        ELSE [panic |-> "none", stack |-> SubSeq(stack, 1, Len(stack) - (label + 1)),
              ret |-> Some(BranchTarget(absolute_instr_of(ended_blocks[label + 1]),
                                        ended_blocks))]

br_target(stack, label) ==
    LET ended_blocks == ended_blocks_of(stack, label)
    IN  IF label + 1 > Len(ended_blocks)
        THEN \* ended_blocks.get(label.0) is None
             [panic |-> "invalid label", stack |-> stack, ret |-> None]
        ELSE [panic |-> "none", stack |-> stack,
              ret |-> Some(BranchTarget(absolute_instr_of(ended_blocks[label + 1]),
                                        ended_blocks))]

\* return_target that looks for the Function record at the top of the stack
return_target_reads_last(stack) ==
    IF stack # <<>> /\ Last(stack).type = "function"
    THEN [panic |-> "none", stack |-> stack,
          ret |-> Some(BranchTarget(Last(stack).end, Rev(stack)))]
    ELSE [panic |-> "missing function block", stack |-> stack, ret |-> None]

return_target(stack) ==
    IF stack # <<>> /\ stack[1].type = "function"
    THEN [panic |-> "none", stack |-> stack,
          ret |-> Some(BranchTarget(stack[1].end, Rev(stack)))]
    ELSE [panic |-> "missing function block", stack |-> stack, ret |-> None]

(* ------------------------------ the state ------------------------------ *)

\* the call made last: its name, its argument and what it returned
Call(op, arg, ret) == [op |-> op, arg |-> arg, ret |-> ret]

NoCall == Call("none", None, None)

\* status is "start" before BlockStack::new ran, "ok" while no call has
\* panicked, and the panic otherwise; a panic ends the run
InitWith(max) ==
    /\ instrs \in InstrSeqs(max)
    /\ status = "start"
    /\ block_stack = <<>>
    /\ begin_end_map = EmptyMap
    /\ iidx = 0
    /\ call = NoCall

Init == InitWith(MaxCallLen)

LockstepInit == InitWith(MaxLen)

\* let block_stack = BlockStack::new(instrs)
New ==
    /\ status = "start"
    /\ LET r == new(instrs)
       IN  /\ status' = IF r.panic = "none" THEN "ok" ELSE r.panic
           /\ block_stack' = r.block_stack
           /\ begin_end_map' = r.begin_end_map
    /\ call' = Call("new", None, None)
    /\ UNCHANGED <<instrs, iidx>>

\* Apply for lookups that take the entry out of the map (remove for get)
Apply_removing_entry(op, arg, r) ==
    /\ status' = IF r.panic = "none" THEN "ok" ELSE r.panic
    /\ block_stack' = r.stack
    /\ call' = Call(op, arg, r.ret)
    /\ begin_end_map' =
           IF op \in {"begin_block", "begin_loop", "begin_if"} /\ r.panic = "none"
           THEN [k \in DOMAIN begin_end_map \ {arg[1]} |-> begin_end_map[k]]
           ELSE begin_end_map
    /\ UNCHANGED instrs

\* the effect of one method call with result r on the BlockStack
Apply(op, arg, r) ==
    /\ status' = IF r.panic = "none" THEN "ok" ELSE r.panic
    /\ block_stack' = r.stack
    /\ call' = Call(op, arg, r.ret)
    /\ UNCHANGED <<instrs, begin_end_map>>

(* ------------------------ calls made by any caller --------------------- *)

\* a caller may invoke the public methods in any order and with any position;
\* MaxDepth caps the stack such a caller builds

BeginBlock(begin_) ==
    /\ status = "ok"
    /\ Len(block_stack) < MaxDepth
    /\ Apply("begin_block", Some(begin_), begin_block(block_stack, begin_end_map, begin_))
    /\ UNCHANGED iidx

BeginLoop(begin_) ==
    /\ status = "ok"
    /\ Len(block_stack) < MaxDepth
    /\ Apply("begin_loop", Some(begin_), begin_loop(block_stack, begin_end_map, begin_))
    /\ UNCHANGED iidx

BeginIf(begin_if_) ==
    /\ status = "ok"
    /\ Len(block_stack) < MaxDepth
    /\ Apply("begin_if", Some(begin_if_), begin_if(block_stack, begin_end_map, begin_if_))
    /\ UNCHANGED iidx

ElseCall ==
    /\ status = "ok"
    /\ Apply("else_", None, else_(block_stack))
    /\ UNCHANGED iidx

EndCall ==
    /\ status = "ok"
    /\ Apply("end", None, end(block_stack))
    /\ UNCHANGED iidx

BrTarget(label) ==
    /\ status = "ok"
    /\ Apply("br_target", Some(label), br_target(block_stack, label))
    /\ UNCHANGED iidx

ReturnTarget ==
    /\ status = "ok"
    /\ Apply("return_target", None, return_target(block_stack))
    /\ UNCHANGED iidx

Next ==
    \/ New
    \/ \E p \in Positions : BeginBlock(p)
    \/ \E p \in Positions : BeginLoop(p)
    \/ \E p \in Positions : BeginIf(p)
    \/ ElseCall
    \/ EndCall
    \/ \E label \in Labels : BrTarget(label)
    \/ ReturnTarget

Spec == Init /\ [][Next]_vars

(* ------------------------- the lockstep traversal ---------------------- *)

\* the traversal visits the instructions before the function's closing End in
\* order and reports each structural one at its own position iidx

Visiting(instr) ==
    /\ status = "ok"
    /\ iidx < Len(instrs) - 1
    /\ instrs[iidx + 1] = instr
    /\ iidx' = iidx + 1

VisitBlock ==
    /\ Visiting("Block")
    /\ Apply("begin_block", Some(iidx), begin_block(block_stack, begin_end_map, iidx))

VisitLoop ==
    /\ Visiting("Loop")
    /\ Apply("begin_loop", Some(iidx), begin_loop(block_stack, begin_end_map, iidx))

VisitIf ==
    /\ Visiting("If")
    /\ Apply("begin_if", Some(iidx), begin_if(block_stack, begin_end_map, iidx))

VisitElse ==
    /\ Visiting("Else")
    /\ Apply("else_", None, else_(block_stack))

VisitEnd ==
    /\ Visiting("End")
    /\ Apply("end", None, end(block_stack))

VisitOther ==
    /\ Visiting("Nop")
    /\ call' = NoCall
    /\ UNCHANGED <<instrs, status, block_stack, begin_end_map>>

LockstepNext ==
    \/ New
    \/ VisitBlock
    \/ VisitLoop
    \/ VisitIf
    \/ VisitElse
    \/ VisitEnd
    \/ VisitOther
    \/ \E label \in Labels : BrTarget(label)
    \/ ReturnTarget

LockstepSpec == LockstepInit /\ [][LockstepNext]_vars

(* --------------------- the structure of a sequence --------------------- *)

\* what the claims say about a sequence, read off the sequence itself

Kind(ins, p) == ins[p + 1]

Openers == {"Block", "Loop", "If"}

BeginClass == {"Block", "Loop", "If", "Else"}

\* how many of the positions a .. b hold an instruction of one of the kinds
Count(ins, a, b, kinds) == Cardinality({q \in a .. b : Kind(ins, q) \in kinds})

\* scopes opened minus scopes ended over the positions a .. b
Level(ins, a, b) == Count(ins, a, b, Openers) - Count(ins, a, b, {"End"})

\* the body: every position but the last, which is taken to be the closing End
BodyEnd(ins) == Len(ins) - 2

\* some End of the body has no open scope to end
ExtraEnd(ins) ==
    /\ Len(ins) >= 1
    /\ \E k \in 0 .. BodyEnd(ins) : Level(ins, 0, k) < 0

\* the body opens more scopes than it ends
MissingEnd(ins) ==
    /\ Len(ins) >= 1
    /\ Level(ins, 0, BodyEnd(ins)) > 0

RECURSIVE WellNested(_, _, _)
\* the body from position i on closes the open scopes (their kinds, innermost
\* last) properly: an End ends the innermost one, an Else follows an if-body only
WellNested(ins, i, open) ==
    IF i > BodyEnd(ins)
    THEN open = <<>>
    ELSE LET k == Kind(ins, i)
         IN  IF k \in Openers THEN WellNested(ins, i + 1, Append(open, k))
             ELSE IF k = "Else"
             THEN /\ open # <<>>
                  /\ Last(open) = "If"
                  /\ WellNested(ins, i + 1, Append(Front(open), "Else"))
             ELSE IF k = "End"
             THEN open # <<>> /\ WellNested(ins, i + 1, Front(open))
             ELSE WellNested(ins, i + 1, open)

Balanced(ins) ==
    /\ Len(ins) >= 1
    /\ Kind(ins, Len(ins) - 1) = "End"
    /\ WellNested(ins, 0, <<>>)

\* the End that ends the scope opened at p: the first End after p at p's level
MatchEnd(ins, p) ==
    CHOOSE q \in (p + 1) .. (Len(ins) - 1) :
        /\ Kind(ins, q) = "End"
        /\ Level(ins, p + 1, q - 1) = 0
        /\ \A r \in (p + 1) .. (q - 1) :
               ~(Kind(ins, r) = "End" /\ Level(ins, p + 1, r - 1) = 0)

\* the Else positions of the If at p: at p's level, before its End
ElsePositions(ins, p) ==
    {q \in (p + 1) .. (MatchEnd(ins, p) - 1) :
        Kind(ins, q) = "Else" /\ Level(ins, p + 1, q - 1) = 0}

HasElse(ins, p) == ElsePositions(ins, p) # {}

ElseOf(ins, p) == CHOOSE q \in ElsePositions(ins, p) : TRUE

\* the If whose else-branch starts at e
IfOf(ins, e) ==
    CHOOSE p \in 0 .. (e - 1) :
        Kind(ins, p) = "If" /\ HasElse(ins, p) /\ ElseOf(ins, p) = e

\* the positions that hold a Block, Loop, If or Else
BeginClassPositions(ins) == {p \in 0 .. (Len(ins) - 1) : Kind(ins, p) \in BeginClass}

constructed == status # "start"

(* ------------------------------- claims -------------------------------- *)

\* C1: for a balanced sequence BlockStack::new returns, and begin_end_map has
\* an entry for exactly the positions that hold a Block, Loop, If or Else,
\* each entry (b, e) with b < e.
C1_MapCoversBeginClass ==
    (Balanced(instrs) /\ constructed) =>
        /\ call.op = "new" => status = "ok"
        /\ DOMAIN begin_end_map = BeginClassPositions(instrs)
        /\ \A b \in DOMAIN begin_end_map : b < begin_end_map[b]

\* a balanced sequence with an if-else inside another scope has been indexed
C1_Witness ==
    /\ Balanced(instrs)
    /\ call.op = "new"
    /\ status = "ok"
    /\ \E p \in DOMAIN begin_end_map : Kind(instrs, p) = "Else"
    /\ Cardinality(DOMAIN begin_end_map) >= 3

\* C2: when the scanned body has an End with nothing to end, or leaves a scope
\* open, BlockStack::new ends in the "invalid block nesting" panic and no
\* BlockStack (and no begin_end_map) is returned. The closing position itself
\* is not scanned: the body is every position but the last.
C2_UnbalancedIsFatal ==
    ((ExtraEnd(instrs) \/ MissingEnd(instrs)) /\ constructed) =>
        /\ status = "invalid block nesting"
        /\ call.op = "new"
        /\ block_stack = <<>>
        /\ begin_end_map = EmptyMap

\* both ways to fail were taken: the pop from the empty stack ...
C2_Witness ==
    /\ ExtraEnd(instrs)
    /\ ~MissingEnd(instrs)
    /\ status = "invalid block nesting"
    /\ \E p \in 0 .. BodyEnd(instrs) : Kind(instrs, p) \in Openers

\* ... and the assert after the scan
C2_WitnessMissing ==
    /\ MissingEnd(instrs)
    /\ ~ExtraEnd(instrs)
    /\ status = "invalid block nesting"

\* C3: br_target(label) with label below the stack depth returns, its target
\* scope is the record label positions below the top, and absolute_instr is
\* that record's begin for a Loop and its end for a Function, Block, If or Else.
C3_BrTargetResolution ==
    (call.op = "br_target" /\ call.arg[1] < Len(block_stack)) =>
        /\ call.ret # None
        /\ LET target == block_stack[Len(block_stack) - call.arg[1]]
               absolute_instr == call.ret[1].absolute_instr
           IN  CASE target.type = "loop" -> absolute_instr = target.begin
                 [] target.type \in {"function", "block", "if", "else"} ->
                        absolute_instr = target.end

\* a branch over an inner scope to a Loop below it resolved to the Loop's begin
C3_Witness ==
    /\ call.op = "br_target"
    /\ call.arg[1] = 1
    /\ Len(block_stack) = 2
    /\ block_stack[1].type = "loop"
    /\ block_stack[2].type # "loop"
    /\ call.ret # None
    /\ call.ret[1].absolute_instr = block_stack[1].begin

\* C4: br_target(label) with label below the stack depth returns label + 1
\* ended_blocks, element i (from 0) being the record i positions below the top,
\* and absolute_instr is computed from the last of them.
C4_EndedBlocks ==
    (call.op = "br_target" /\ call.arg[1] < Len(block_stack)) =>
        /\ call.ret # None
        /\ LET label == call.arg[1]
               ended_blocks == call.ret[1].ended_blocks
               last == ended_blocks[label + 1]
           IN  /\ Len(ended_blocks) = label + 1
               /\ \A i \in 0 .. label :
                      ended_blocks[i + 1] = block_stack[Len(block_stack) - i]
               /\ call.ret[1].absolute_instr =
                      IF last.type = "loop" THEN last.begin ELSE last.end

\* a branch that leaves two different scopes
C4_Witness ==
    /\ call.op = "br_target"
    /\ call.arg[1] = 1
    /\ call.ret # None
    /\ Len(call.ret[1].ended_blocks) = 2
    /\ call.ret[1].ended_blocks[1] # call.ret[1].ended_blocks[2]

\* C5: wherever in a traversal return_target() is called, it returns
\* absolute_instr = the end of the Function record at the bottom = the position
\* of the last instruction, and ended_blocks = the whole stack, innermost first.
C5_ReturnTarget ==
    call.op = "return_target" =>
        /\ call.ret # None
        /\ block_stack[1] = Function(Len(instrs) - 1)
        /\ call.ret[1].absolute_instr = Len(instrs) - 1
        /\ Len(call.ret[1].ended_blocks) = Len(block_stack)
        /\ \A i \in 1 .. Len(block_stack) :
               call.ret[1].ended_blocks[i] = block_stack[Len(block_stack) + 1 - i]

\* a return from inside two nested scopes of a balanced sequence
C5_Witness ==
    /\ Balanced(instrs)
    /\ call.op = "return_target"
    /\ call.ret # None
    /\ Len(call.ret[1].ended_blocks) = 3
    /\ call.ret[1].ended_blocks[3].type = "function"

\* C6: in a balanced sequence begin_if(p) at an If pushes an If record whose
\* begin_else is present exactly when the if-body is followed by an Else before
\* the matching End; without an Else, begin_else is None and end is the
\* position of the End that matches the If.
C6_BeginIf ==
    (Balanced(instrs) /\ call.op = "begin_if") =>
        /\ status = "ok"
        /\ LET p == call.arg[1]
               top == Last(block_stack)
           IN  /\ top.type = "if"
               /\ top.begin_if = p
               /\ (top.begin_else # None) <=> HasElse(instrs, p)
               /\ ~HasElse(instrs, p) =>
                      (top.begin_else = None /\ top.end = MatchEnd(instrs, p))

\* an If without an Else whose body holds a whole scope of its own
C6_Witness ==
    /\ Balanced(instrs)
    /\ call.op = "begin_if"
    /\ status = "ok"
    /\ Last(block_stack).begin_else = None
    /\ Last(block_stack).end > call.arg[1] + 2
    /\ Kind(instrs, call.arg[1] + 1) \in Openers

\* C7: for an If at p with its Else at e and its End at n, in a traversal of a
\* balanced sequence: after begin_if(p) the top is If{p, Some(e), n}; after
\* else_() at e the top is Else{e, p, n}; and end() at n returns Else{e, p, n}.
C7_IfElseEnd ==
    Balanced(instrs) =>
        /\ (call.op = "begin_if" /\ HasElse(instrs, call.arg[1])) =>
               LET p == call.arg[1]
               IN  /\ status = "ok"
                   /\ Last(block_stack) =
                          If(p, Some(ElseOf(instrs, p)), MatchEnd(instrs, p))
        /\ call.op = "else_" =>
               LET e == iidx - 1
                   p == IfOf(instrs, e)
               IN  /\ status = "ok"
                   /\ Last(block_stack) = Else(e, p, MatchEnd(instrs, p))
        /\ call.op = "end" =>
               \A p \in 0 .. (iidx - 2) :
                   (/\ Kind(instrs, p) = "If"
                    /\ HasElse(instrs, p)
                    /\ MatchEnd(instrs, p) = iidx - 1) =>
                       /\ status = "ok"
                       /\ call.ret = Some(Else(ElseOf(instrs, p), p, iidx - 1))

\* the End of an if-else with non-empty branches has been traversed
C7_Witness ==
    /\ Balanced(instrs)
    /\ call.op = "end"
    /\ call.ret # None
    /\ call.ret[1].type = "else"
    /\ call.ret[1].begin_if + 1 < call.ret[1].begin_else
    /\ call.ret[1].begin_else + 1 < call.ret[1].end
    /\ call.ret[1].end = iidx - 1

\* C8: once a balanced sequence is constructed, the stack is never empty in a
\* lockstep traversal and its bottom record is the Function record: no End
\* before the function's closing End pops it.
C8_FunctionFrameStays ==
    (Balanced(instrs) /\ constructed) =>
        /\ status \in {"ok", "invalid label"}
        /\ block_stack # <<>>
        /\ block_stack[1] = Function(Len(instrs) - 1)
        /\ \A i \in 2 .. Len(block_stack) : block_stack[i].type # "function"

\* the whole body, with an if-else in it, has been traversed
C8_Witness ==
    /\ Balanced(instrs)
    /\ status = "ok"
    /\ iidx = Len(instrs) - 1
    /\ call.op = "end"
    /\ call.ret[1].type = "else"
    /\ block_stack = <<Function(Len(instrs) - 1)>>

OpenOps == {"begin_block", "begin_loop", "begin_if"}

\* C9 as stated: the depth grows on every begin_block, begin_loop and begin_if
\* that returns, and shrinks on every else_ and end that returns.
C9_DepthShrinksOnElseAndEnd ==
    [][/\ (status' = "ok" /\ call'.op \in OpenOps) =>
              Len(block_stack') > Len(block_stack)
       /\ (status' = "ok" /\ call'.op \in {"else_", "end"}) =>
              Len(block_stack') < Len(block_stack)]_vars

\* C9, amended: the depth grows by one on every begin_block, begin_loop and
\* begin_if that returns, shrinks by one on every end that returns, and is
\* left as it was by every else_ that returns (the If popped is replaced by
\* the Else pushed).
C9_DepthByOperation ==
    [][/\ (status' = "ok" /\ call'.op \in OpenOps) =>
              Len(block_stack') = Len(block_stack) + 1
       /\ (status' = "ok" /\ call'.op = "end") =>
              Len(block_stack') = Len(block_stack) - 1
       /\ (status' = "ok" /\ call'.op = "else_") =>
              Len(block_stack') = Len(block_stack)]_vars

\* an else_ has returned
C9_Witness ==
    /\ status = "ok"
    /\ call.op = "else_"
    /\ call.ret # None
    /\ Last(block_stack).type = "else"

\* begin < end for one record
Ordered(r) ==
    CASE r.type = "function" -> TRUE
      [] r.type \in {"block", "loop"} -> r.begin < r.end
      [] r.type = "if" ->
             /\ r.begin_if < r.end
             /\ r.begin_else # None =>
                    (r.begin_if < r.begin_else[1] /\ r.begin_else[1] < r.end)
      [] r.type = "else" -> r.begin_if < r.begin_else /\ r.begin_else < r.end

\* C10: while no call has panicked, every record on the stack has begin < end:
\* a Block and a Loop begin < end, an If begin_if < end and, with an Else,
\* begin_if < begin_else < end, an Else begin_if < begin_else < end.
C10_RecordsOrdered ==
    status = "ok" => \A i \in 1 .. Len(block_stack) : Ordered(block_stack[i])

\* an If with an else-branch below an Else record
C10_Witness ==
    /\ status = "ok"
    /\ Len(block_stack) = 2
    /\ block_stack[1].type = "if"
    /\ block_stack[1].begin_else # None
    /\ block_stack[2].type = "else"

\* the terminator the sequence gives the begin-class position b: for an If
\* with an else-branch its Else, otherwise the End at b's level
Terminator(ins, b) ==
    IF Kind(ins, b) = "If" /\ HasElse(ins, b) THEN ElseOf(ins, b) ELSE MatchEnd(ins, b)

\* the kinds of an entry fit: a Block, Loop or Else is mapped to an End, and
\* only an If is mapped to an Else
EntryKindsFit(ins, b, e) ==
    /\ Kind(ins, b) \in BeginClass
    /\ Kind(ins, e) \in {"Else", "End"}
    /\ Kind(ins, b) \in {"Block", "Loop", "Else"} => Kind(ins, e) = "End"
    /\ Kind(ins, e) = "Else" => Kind(ins, b) = "If"

\* the body is properly nested, each Else following the body of an If
ProperBody(ins) == Len(ins) >= 1 /\ WellNested(ins, 0, <<>>)

\* C11 as stated: on every sequence on which construction completes, every
\* entry maps a Block, Loop or Else position to an End and only an If position
\* to an Else.
C11_EntriesFitOnEveryInput ==
    \A b \in DOMAIN begin_end_map : EntryKindsFit(instrs, b, begin_end_map[b])

\* C11, amended: on every sequence whose body is properly nested with each
\* Else following the body of an If, every entry maps its begin-class position
\* to its matching terminator: a Block, Loop or Else to its End, an If to its
\* Else when it has one and to its End otherwise.
C11_EntriesFitOnProperBody ==
    ProperBody(instrs) =>
        \A b \in DOMAIN begin_end_map :
            /\ EntryKindsFit(instrs, b, begin_end_map[b])
            /\ begin_end_map[b] = Terminator(instrs, b)

\* an if-else inside a block has been indexed
C11_Witness ==
    /\ ProperBody(instrs)
    /\ status = "ok"
    /\ call.op = "new"
    /\ \E b \in DOMAIN begin_end_map :
           Kind(instrs, b) = "If" /\ Kind(instrs, begin_end_map[b]) = "Else"
    /\ \E b \in DOMAIN begin_end_map : Kind(instrs, b) = "Block"

\* C12: br_target(label) ends in the "invalid label" panic exactly when the
\* stack holds fewer than label + 1 records; with label below the stack depth
\* it returns a BranchTarget.
C12_UnresolvableLabel ==
    call.op = "br_target" =>
        LET label == call.arg[1]
        IN  /\ (status = "invalid label") <=> (Len(block_stack) < label + 1)
            /\ label < Len(block_stack) => (status = "ok" /\ call.ret # None)
            /\ Len(block_stack) < label + 1 => call.ret = None

\* a label one past the outermost of two open records
C12_Witness ==
    /\ call.op = "br_target"
    /\ status = "invalid label"
    /\ Len(block_stack) = 2
    /\ call.arg[1] = 2

\* an If record with its else-branch still to come
IfWithElse(r) == r.type = "if" /\ r.begin_else # None

\* C13: else_() ends in the "invalid block nesting" panic and returns no
\* record whenever the stack is empty or its top is not an If with begin_else
\* present; end() does so whenever the stack is empty.
C13_ContractViolation ==
    [][/\ (/\ call'.op = "else_"
           /\ (block_stack = <<>> \/ ~IfWithElse(Last(block_stack)))) =>
              (status' = "invalid block nesting" /\ call'.ret = None)
       /\ (call'.op = "end" /\ block_stack = <<>>) =>
              (status' = "invalid block nesting" /\ call'.ret = None)]_vars

\* else_() has panicked on a record that was not an If with an else-branch:
\* the record is popped, the one below it is left
C13_Witness ==
    /\ call.op = "else_"
    /\ status = "invalid block nesting"
    /\ call.ret = None
    /\ Len(block_stack) = 1

\* end() has panicked on the empty stack
C13_WitnessEnd ==
    /\ call.op = "end"
    /\ status = "invalid block nesting"
    /\ block_stack = <<>>

\* C14: an else_() that returns gives back the If record it popped, with
\* begin_else present, not the Else it pushed; the Else it leaves on top has
\* the begin_if, begin_else and end of the returned If, and the records below
\* are untouched.
C14_ElseReturnsIf ==
    [][(call'.op = "else_" /\ status' = "ok") =>
           /\ call'.ret = Some(Last(block_stack))
           /\ call'.ret[1].type = "if"
           /\ call'.ret[1].begin_else # None
           /\ Last(block_stack').type = "else"
           /\ Last(block_stack').begin_if = call'.ret[1].begin_if
           /\ Some(Last(block_stack').begin_else) = call'.ret[1].begin_else
           /\ Last(block_stack').end = call'.ret[1].end
           /\ Front(block_stack') = Front(block_stack)]_vars

\* an else_() has returned an If from above another record
C14_Witness ==
    /\ call.op = "else_"
    /\ status = "ok"
    /\ call.ret # None
    /\ call.ret[1].type = "if"
    /\ Len(block_stack) = 2
    /\ block_stack[1].type = "function"

\* C15: in a traversal of a balanced sequence, every end() at an End at
\* position p returns a record whose end is p, and every else_() at an Else at
\* position p returns an If record whose begin_else is Some(p). The call was
\* made at the position just traversed, iidx - 1.
C15_EndResolvesToBegin ==
    Balanced(instrs) =>
        /\ call.op = "end" =>
               /\ status = "ok"
               /\ call.ret # None
               /\ call.ret[1].end = iidx - 1
        /\ call.op = "else_" =>
               /\ status = "ok"
               /\ call.ret # None
               /\ call.ret[1].type = "if"
               /\ call.ret[1].begin_else = Some(iidx - 1)

\* the End of a Loop nested in another scope has been traversed
C15_Witness ==
    /\ Balanced(instrs)
    /\ call.op = "end"
    /\ call.ret # None
    /\ call.ret[1].type = "loop"
    /\ call.ret[1].end = iidx - 1
    /\ Len(block_stack) >= 2

\* C16: in a traversal of a balanced sequence the records above the Function
\* record number the begin_block, begin_loop and begin_if events minus the
\* end() events so far (one event per Block, Loop, If and End among the
\* positions traversed), and when every position before the closing End has
\* been traversed the stack is the Function record alone.
C16_StackBalancedWithEvents ==
    (Balanced(instrs) /\ constructed) =>
        /\ Len(block_stack) - 1 =
               Count(instrs, 0, iidx - 1, Openers) - Count(instrs, 0, iidx - 1, {"End"})
        /\ iidx = Len(instrs) - 1 => block_stack = <<Function(Len(instrs) - 1)>>

\* a traversal that had two scopes open at once is complete
C16_Witness ==
    /\ Balanced(instrs)
    /\ status = "ok"
    /\ iidx = Len(instrs) - 1
    /\ block_stack = <<Function(Len(instrs) - 1)>>
    /\ \E k \in 0 .. BodyEnd(instrs) : Level(instrs, 0, k) = 2

\* C17: br_target(label) and return_target() leave block_stack and
\* begin_end_map as they were, for every label and also when they panic.
C17_QueriesReadOnly ==
    [][call'.op \in {"br_target", "return_target"} =>
           (block_stack' = block_stack /\ begin_end_map' = begin_end_map)]_vars

\* return_target() has panicked on a stack without its Function record, and
\* the records are still there
C17_Witness ==
    /\ call.op = "return_target"
    /\ status = "missing function block"
    /\ block_stack # <<>>
    /\ DOMAIN begin_end_map # {}

\* C18: once BlockStack::new has run, no call of begin_block, begin_loop,
\* begin_if, else_ or end (nor any other) changes begin_end_map.
C18_MapImmutable ==
    [][constructed => begin_end_map' = begin_end_map]_vars

\* an if-else has been opened and closed again over a map with entries
C18_Witness ==
    /\ status = "ok"
    /\ call.op = "end"
    /\ call.ret # None
    /\ call.ret[1].type = "else"
    /\ Cardinality(DOMAIN begin_end_map) >= 2

\* the begin positions a record carries, and the first of them
Begins(r) ==
    CASE r.type = "function" -> {}
      [] r.type \in {"block", "loop"} -> {r.begin}
      [] r.type = "if" -> {r.begin_if} \cup {r.begin_else[i] : i \in 1 .. Len(r.begin_else)}
      [] r.type = "else" -> {r.begin_if, r.begin_else}

FirstBegin(r) == CHOOSE b \in Begins(r) : \A c \in Begins(r) : b <= c

\* the positions of the branch of record r that is being traversed: after
\* its begin (the Else's own begin for an Else), and before the Else of an If
\* that has one, before the end otherwise; the Function's holds the whole body
BranchFrom(r) ==
    CASE r.type = "function" -> -1
      [] r.type \in {"block", "loop"} -> r.begin
      [] r.type = "if" -> r.begin_if
      [] r.type = "else" -> r.begin_else

BranchTo(r) == IF r.type = "if" /\ r.begin_else # None THEN r.begin_else[1] ELSE r.end

\* C19 as stated: in a traversal of a balanced sequence each record above the
\* Function record has its first begin after every begin position of the
\* record below it and its end before the end of the record below it.
C19_InsideEveryBeginBelow ==
    (Balanced(instrs) /\ constructed) =>
        \A i \in 2 .. Len(block_stack) :
            /\ \A b \in Begins(block_stack[i - 1]) : b < FirstBegin(block_stack[i])
            /\ block_stack[i].end < block_stack[i - 1].end

\* C19, amended: each record above the Function record lies strictly inside
\* the open branch of the record below it: its first begin is after begin (of
\* a Block or Loop), begin_if (of an If) or begin_else (of an Else), and its
\* end is before the end of the record below and, below an If with an
\* else-branch, before that If's begin_else, which itself comes after the
\* record. End positions strictly decrease from the bottom to the top.
C19_InsideOpenBranchBelow ==
    (Balanced(instrs) /\ constructed) =>
        \A i \in 2 .. Len(block_stack) :
            /\ BranchFrom(block_stack[i - 1]) < FirstBegin(block_stack[i])
            /\ block_stack[i].end < BranchTo(block_stack[i - 1])
            /\ block_stack[i].end < block_stack[i - 1].end

\* a record inside the if-branch of an If that has an else-branch
C19_Witness ==
    /\ Balanced(instrs)
    /\ status = "ok"
    /\ Len(block_stack) = 3
    /\ IfWithElse(block_stack[2])
    /\ block_stack[3].end < block_stack[2].begin_else[1]

\* a record inside the else-branch
C19_WitnessElse ==
    /\ Balanced(instrs)
    /\ status = "ok"
    /\ Len(block_stack) = 3
    /\ block_stack[2].type = "else"

\* C20: whenever the bottom record is the Function record, br_target with the
\* label depth - 1 and return_target() return the same BranchTarget: the
\* Function's end and the whole stack, innermost first.
C20_OutermostLabelIsReturn ==
    (block_stack # <<>> /\ block_stack[1].type = "function") =>
        LET depth == Len(block_stack)
            br == br_target(block_stack, depth - 1)
            rt == return_target(block_stack)
        IN  /\ br.panic = "none" /\ rt.panic = "none"
            /\ br.ret = rt.ret
            /\ rt.ret[1].absolute_instr = block_stack[1].end
            /\ (call.op = "br_target" /\ call.arg[1] = depth - 1) => call.ret = rt.ret
            /\ call.op = "return_target" => call.ret = br.ret

\* br_target was called with the label of the Function record from inside
\* another record
C20_Witness ==
    /\ Len(block_stack) = 2
    /\ block_stack[1].type = "function"
    /\ call.op = "br_target"
    /\ call.arg[1] = 1
    /\ call.ret = return_target(block_stack).ret
    /\ call.ret # None

====
